---- MODULE Spec2Model ----
(***************************************************************************)
(* Model of the catalog lookup, the tools and the chat session of the      *)
(* Cisco multi-agent repository: aci_agent.py, ise_agent.py,               *)
(* ios_xe_agent.py and cisco_agent.py.                                     *)
(*                                                                         *)
(* Python strings are sequences of code points (so that the substring and  *)
(* ordering behaviour of str is modelled), Python dicts are records that   *)
(* hold exactly the keys present, a Python list returned where a dict is   *)
(* expected is the record [list |-> <<...>>], and an exception that leaves *)
(* a function is the record [raise |-> name].                              *)
(***************************************************************************)
EXTENDS Integers, Sequences, FiniteSets, TLC

(***************************************************************************)
(* Bounds of the exploration.                                              *)
(***************************************************************************)
MaxIdLen == 2
MaxNameLen == 1
MaxQueryLen == 3
MaxEntries == 2
ToolMaxEntries == 1
ToolMaxInputLen == 1
MaxTurns == 5
MaxTextLen == 1

(***************************************************************************)
(* State.                                                                  *)
(*   agent   the agent module in use                                       *)
(*   source  the state of that agent's catalog file                        *)
(*   call    the last function or tool called, with its argument           *)
(*   result  what that call returned                                       *)
(*   io      the backend and device operations that call performed         *)
(*   conn    whether the device connection that call opened is still open  *)
(*   edited  the catalog file was rewritten since the last call            *)
(*   repeat  the last call repeated the call before it (same tool, same    *)
(*           argument, file not rewritten in between)                      *)
(*   conversation  st.session_state.conversation                           *)
(*   chat_history  st.session_state.chat_history                           *)
(***************************************************************************)
VARIABLES agent, source, call, result, io, conn, edited, repeat,
          conversation, chat_history

vars == <<agent, source, call, result, io, conn, edited, repeat,
          conversation, chat_history>>

\* Code points of 'a' and 'b': the letters catalog strings and queries are
\* built from.
Chars == {97, 98}

\* The str "error", the key the loaders' callers test for.
ErrorKey == <<101, 114, 114, 111, 114>>

SeqsUpTo(S, n) == UNION {[1..k -> S] : k \in 0..n}

(***************************************************************************)
(* Python str ordering (by code point, a proper prefix is smaller).        *)
(***************************************************************************)
RECURSIVE StrLess(_, _)
StrLess(s, t) ==
    IF t = <<>> THEN FALSE
    ELSE IF s = <<>> THEN TRUE
    ELSE IF Head(s) # Head(t) THEN Head(s) < Head(t)
    ELSE StrLess(Tail(s), Tail(t))

(***************************************************************************)
(* difflib.SequenceMatcher, as get_close_matches uses it: no junk, and     *)
(* sequences shorter than 200 elements, for which the autojunk heuristic   *)
(* is inactive.  Windows are [lo, hi) over 1-based indices.                *)
(***************************************************************************)
Min(x, y) == IF x <= y THEN x ELSE y

\* Length of the common run of a[i..ahi-1] and b[j..bhi-1].
RECURSIVE BlockLen(_, _, _, _, _, _)
BlockLen(a, b, i, j, ahi, bhi) ==
    IF i < ahi /\ j < bhi /\ a[i] = b[j]
    THEN 1 + BlockLen(a, b, i + 1, j + 1, ahi, bhi)
    ELSE 0

\* find_longest_match: <<i, j, k>>, the longest block, the one starting
\* earliest in a and, of those, earliest in b; <<alo, blo, 0>> if none.
find_longest_match(a, b, alo, ahi, blo, bhi) ==
    LET P == (alo..(ahi - 1)) \X (blo..(bhi - 1))
        len(p) == BlockLen(a, b, p[1], p[2], ahi, bhi)
        best == IF P = {} THEN 0
                ELSE CHOOSE k \in {len(p) : p \in P} :
                        \A q \in P : len(q) <= k
    IN  IF best = 0 THEN <<alo, blo, 0>>
        ELSE LET B == {p \in P : len(p) = best}
                 p == CHOOSE x \in B :
                        \A y \in B : x[1] < y[1] \/ (x[1] = y[1] /\ x[2] <= y[2])
             IN  <<p[1], p[2], best>>

\* Sum of the sizes of get_matching_blocks: the longest block, then the
\* pieces to its left and to its right.
RECURSIVE matches(_, _, _, _, _, _)
matches(a, b, alo, ahi, blo, bhi) ==
    LET m == find_longest_match(a, b, alo, ahi, blo, bhi)
        i == m[1]
        j == m[2]
        k == m[3]
    IN  IF k = 0 THEN 0
        ELSE k
             + (IF alo < i /\ blo < j THEN matches(a, b, alo, i, blo, j) ELSE 0)
             + (IF i + k < ahi /\ j + k < bhi
                THEN matches(a, b, i + k, ahi, j + k, bhi) ELSE 0)

\* _calculate_ratio: 2.0 * matches / length, 1.0 when length is 0; kept as the
\* exact fraction <<numerator, denominator>>.
calculate_ratio(m, length) == IF length # 0 THEN <<2 * m, length>> ELSE <<1, 1>>

\* Comparison of two such fractions, as the floats compare.
RatioGeq(r, s) == r[1] * s[2] >= s[1] * r[2]
RatioEq(r, s) == r[1] * s[2] = s[1] * r[2]

\* ratio() with seq1 = a, seq2 = b.
ratio(a, b) ==
    calculate_ratio(matches(a, b, 1, Len(a) + 1, 1, Len(b) + 1), Len(a) + Len(b))

real_quick_ratio(a, b) == calculate_ratio(Min(Len(a), Len(b)), Len(a) + Len(b))

\* quick_ratio: the size of the multiset intersection of a and b.
quick_ratio(a, b) ==
    LET cnt(s, c) == Cardinality({i \in DOMAIN s : s[i] = c})
        E == {a[i] : i \in DOMAIN a}
        RECURSIVE sum(_)
        sum(S) == IF S = {} THEN 0
                  ELSE LET c == CHOOSE x \in S : TRUE
                       IN  Min(cnt(a, c), cnt(b, c)) + sum(S \ {c})
    IN  calculate_ratio(sum(E), Len(a) + Len(b))

\* The (score, x) tuples order as Python tuples do: by score, then by str.
TupleLess(p, q) ==
    \/ ~RatioGeq(p[1], q[1])
    \/ RatioEq(p[1], q[1]) /\ StrLess(p[2], q[2])

\* heapq.nlargest(n, result): the n greatest tuples, greatest first.
RECURSIVE nlargest(_, _)
nlargest(n, items) ==
    IF n = 0 \/ items = <<>> THEN <<>>
    ELSE LET i == CHOOSE x \in DOMAIN items :
                    /\ \A y \in DOMAIN items : ~TupleLess(items[x], items[y])
                    /\ \A y \in 1..(x - 1) : TupleLess(items[y], items[x])
             rest == [y \in 1..(Len(items) - 1) |->
                        IF y < i THEN items[y] ELSE items[y + 1]]
         IN  <<items[i]>> \o nlargest(n - 1, rest)

\* Variant of get_close_matches: a hand-written loop that returns the first
\* possibility at or above the cutoff instead of the best one.
get_close_matches_first_found(word, possibilities, n, cutoff) ==
    LET hits == SelectSeq(possibilities,
                          LAMBDA x : RatioGeq(ratio(x, word), cutoff))
    IN  IF n = 0 \/ hits = <<>> THEN <<>> ELSE <<hits[1]>>

\* difflib.get_close_matches(word, possibilities, n, cutoff).
get_close_matches(word, possibilities, n, cutoff) ==
    LET ok(x) == /\ RatioGeq(real_quick_ratio(x, word), cutoff)
                 /\ RatioGeq(quick_ratio(x, word), cutoff)
                 /\ RatioGeq(ratio(x, word), cutoff)
        kept == SelectSeq(possibilities, ok)
        top == nlargest(n, [i \in DOMAIN kept |-> <<ratio(kept[i], word), kept[i]>>])
    IN  [i \in DOMAIN top |-> top[i][2]]

\* cutoff=0.6
Cutoff == <<6, 10>>

(***************************************************************************)
(* Python values.                                                          *)
(***************************************************************************)
\* dict.get(key) on a dict whose values under that key are strings.
Get(d, key) == IF key \in DOMAIN d THEN d[key] ELSE "None"

IsList(v) == "list" \in DOMAIN v
IsRaise(v) == "raise" \in DOMAIN v

(***************************************************************************)
(* The catalog files.  A file is missing, unreadable, not JSON, or a JSON  *)
(* list of objects; an object holds the keys that are present.             *)
(***************************************************************************)
Agents == {"aci", "ise", "ios_xe"}
UrlAgents == {"aci", "ise"}

Ids == SeqsUpTo(Chars, MaxIdLen) \cup {ErrorKey}
Names == SeqsUpTo(Chars, MaxNameLen)
Queries == SeqsUpTo(Chars, MaxQueryLen) \cup {ErrorKey}

\* Entries of a catalog file: a URL (or command) and a Name, either of which
\* may be absent.
UrlEntries(ids, names) ==
    {[URL |-> u, Name |-> n] : u \in ids, n \in names}
        \cup {[URL |-> u] : u \in ids}
        \cup {[Name |-> n] : n \in names}

CommandEntries(ids) == {[command |-> c] : c \in ids} \cup {[Name |-> <<>>]}

Entries(ag, ids, names) ==
    IF ag \in UrlAgents THEN UrlEntries(ids, names) ELSE CommandEntries(ids)

\* States of the agent's catalog file with up to n entries.
Files(ag, ids, names, n) ==
    {[kind |-> k, data |-> <<>>] : k \in {"missing", "unreadable", "malformed"}}
        \cup {[kind |-> "json", data |-> d] :
                d \in SeqsUpTo(Entries(ag, ids, names), n)}

FileName(ag) ==
    IF ag = "aci" THEN "aci_urls.json"
    ELSE IF ag = "ise" THEN "ise_urls.json"
    ELSE "ios_xe_commands.json"

(***************************************************************************)
(* Catalog loaders.                                                        *)
(***************************************************************************)
\* Variant of load_urls: entries without a URL are skipped instead of
\* failing the load.
load_urls_skipping(ag, file) ==
    IF file.kind = "missing"
    THEN [error |-> <<"URLs file not found.", FileName(ag)>>]
    ELSE IF file.kind # "json"
    THEN [error |-> <<"Error loading URLs:", "Exception">>]
    ELSE LET kept == SelectSeq(file.data, LAMBDA e : "URL" \in DOMAIN e)
         IN  [list |-> [i \in DOMAIN kept |->
                          <<kept[i].URL,
                            IF "Name" \in DOMAIN kept[i] THEN kept[i].Name ELSE <<>>>>]]

\* aci_agent.load_urls / ise_agent.load_urls with the default file_path.
load_urls(ag, file) ==
    IF file.kind = "missing"
    THEN [error |-> <<"URLs file not found.", FileName(ag)>>]
    ELSE IF file.kind = "unreadable"
    THEN [error |-> <<"Error loading URLs:", "PermissionError">>]
    ELSE IF file.kind = "malformed"
    THEN [error |-> <<"Error loading URLs:", "JSONDecodeError">>]
    ELSE IF \E i \in DOMAIN file.data : "URL" \notin DOMAIN file.data[i]
    THEN [error |-> <<"Error loading URLs:", "KeyError 'URL'">>]
    ELSE [list |-> [i \in DOMAIN file.data |->
                      <<file.data[i].URL,
                        IF "Name" \in DOMAIN file.data[i]
                        THEN file.data[i].Name ELSE <<>>>>]]

\* ios_xe_agent.load_supported_commands.
load_supported_commands(file) ==
    IF file.kind = "missing"
    THEN [error |-> <<"Supported commands file not found.", FileName("ios_xe")>>]
    ELSE IF file.kind = "unreadable"
    THEN [error |-> <<"Error loading supported commands:", "PermissionError">>]
    ELSE IF file.kind = "malformed"
    THEN [error |-> <<"Error loading supported commands:", "JSONDecodeError">>]
    ELSE IF \E i \in DOMAIN file.data : "command" \notin DOMAIN file.data[i]
    THEN [error |-> <<"Error loading supported commands:", "KeyError 'command'">>]
    ELSE [list |-> [i \in DOMAIN file.data |-> file.data[i].command]]

(***************************************************************************)
(* Resolvers.                                                              *)
(***************************************************************************)
\* `"error" in url_list`: a key of the error dict; on the list of
\* (URL, Name) tuples no element equals the str "error".
error_in_url_list(url_list) ==
    IF IsList(url_list) THEN FALSE ELSE "error" \in DOMAIN url_list

\* `"error" in command_list`: a key of the error dict, or an element of the
\* list of command strings.
error_in_command_list(command_list) ==
    IF IsList(command_list)
    THEN \E i \in DOMAIN command_list.list : command_list.list[i] = ErrorKey
    ELSE "error" \in DOMAIN command_list

\* The name paired with the matched URL:
\* [entry[1] for entry in url_list if entry[0] == closest_url][0].
matching_name(url_list, closest_url) ==
    LET hits == SelectSeq(url_list, LAMBDA entry : entry[1] = closest_url)
    IN  hits[1][2]

\* Variant of url_of_name: the [0] taken without the filter on the name.
url_of_name_unfiltered(url_list, closest_name) == url_list[1][1]

\* The URL paired with the matched name:
\* [entry[0] for entry in url_list if entry[1] == closest_name][0].
url_of_name(url_list, closest_name) ==
    LET hits == SelectSeq(url_list, LAMBDA entry : entry[2] = closest_name)
    IN  hits[1][1]

\* Variant of pick_match: the two branches in the other order, so that a
\* display-name match is preferred to an identifier match.
pick_match_names_first(url_list, api_url, close_url_matches, close_name_matches) ==
    IF close_name_matches # <<>>
    THEN [status |-> "supported",
          closest_url |-> url_of_name(url_list, close_name_matches[1]),
          closest_name |-> close_name_matches[1]]
    ELSE IF close_url_matches # <<>>
    THEN [status |-> "supported",
          closest_url |-> close_url_matches[1],
          closest_name |-> matching_name(url_list, close_url_matches[1])]
    ELSE [status |-> "unsupported",
          message |-> <<"The input is not supported.", api_url>>]

\* check_url_support, from "Determine the best match from either the URL or
\* Name" on: the if / elif / else over the two match lists.
pick_match(url_list, api_url, close_url_matches, close_name_matches) ==
    IF close_url_matches # <<>>
    THEN [status |-> "supported",
          closest_url |-> close_url_matches[1],
          closest_name |-> matching_name(url_list, close_url_matches[1])]
    ELSE IF close_name_matches # <<>>
    THEN [status |-> "supported",
          closest_url |-> url_of_name(url_list, close_name_matches[1]),
          closest_name |-> close_name_matches[1]]
    ELSE [status |-> "unsupported",
          message |-> <<"The input is not supported.", api_url>>]

\* check_url_support, after load_urls(): the error short-cut, the two lists
\* and the two get_close_matches calls.
match_urls(url_list, api_url) ==
    IF error_in_url_list(url_list) THEN url_list
    ELSE pick_match(url_list.list, api_url,
                    get_close_matches(api_url,
                        [i \in DOMAIN url_list.list |-> url_list.list[i][1]],
                        1, Cutoff),
                    get_close_matches(api_url,
                        [i \in DOMAIN url_list.list |-> url_list.list[i][2]],
                        1, Cutoff))

\* aci_agent.check_url_support / ise_agent.check_url_support.
check_url_support(ag, file, api_url) == match_urls(load_urls(ag, file), api_url)

\* check_command_support, from the get_close_matches result on.
pick_command(command, close_matches) ==
    IF close_matches # <<>>
    THEN [status |-> "supported", closest_command |-> close_matches[1]]
    ELSE [status |-> "unsupported",
          message |-> <<"The command is not supported.", command>>]

\* check_command_support, after load_supported_commands().
match_commands(command_list, command) ==
    IF error_in_command_list(command_list) THEN command_list
    ELSE pick_command(command,
                      get_close_matches(command, command_list.list, 1, Cutoff))

\* ios_xe_agent.check_command_support.
check_command_support(file, command) ==
    match_commands(load_supported_commands(file), command)

\* No call has been made yet / Python's None.
NoCall == [fn |-> "none", arg |-> <<>>]
NoResult == [none |-> TRUE]

(***************************************************************************)
(* Resolver specification: a catalog file of up to MaxEntries entries is   *)
(* drawn, and one loader or resolver call is applied to it.  The functions *)
(* re-read the file on every call and keep nothing between calls.          *)
(***************************************************************************)
Init ==
    /\ agent \in Agents
    /\ source \in Files(agent, Ids, Names, MaxEntries)
    /\ call = NoCall
    /\ result = NoResult
    /\ io = <<>>
    /\ conn = "closed"
    /\ edited = FALSE
    /\ repeat = FALSE
    /\ conversation = <<>>
    /\ chat_history = <<>>

LoadUrls ==
    /\ agent \in UrlAgents
    /\ call = NoCall
    /\ call' = [fn |-> "load_urls", arg |-> <<>>]
    /\ result' = load_urls(agent, source)
    /\ UNCHANGED <<agent, source, io, conn, edited, repeat, conversation, chat_history>>

CheckUrlSupport(api_url) ==
    /\ agent \in UrlAgents
    /\ call = NoCall
    /\ call' = [fn |-> "check_url_support", arg |-> api_url]
    /\ result' = check_url_support(agent, source, api_url)
    /\ UNCHANGED <<agent, source, io, conn, edited, repeat, conversation, chat_history>>

LoadSupportedCommands ==
    /\ agent = "ios_xe"
    /\ call = NoCall
    /\ call' = [fn |-> "load_supported_commands", arg |-> <<>>]
    /\ result' = load_supported_commands(source)
    /\ UNCHANGED <<agent, source, io, conn, edited, repeat, conversation, chat_history>>

CheckCommandSupport(command) ==
    /\ agent = "ios_xe"
    /\ call = NoCall
    /\ call' = [fn |-> "check_command_support", arg |-> command]
    /\ result' = check_command_support(source, command)
    /\ UNCHANGED <<agent, source, io, conn, edited, repeat, conversation, chat_history>>

Next ==
    \/ LoadUrls
    \/ \E api_url \in Queries : CheckUrlSupport(api_url)
    \/ LoadSupportedCommands
    \/ \E command \in Queries : CheckCommandSupport(command)

Spec == Init /\ [][Next]_vars

(***************************************************************************)
(* Backend clients and device automation.  What the outside world does     *)
(* (the controller's answer, the device's behaviour) is the parameter      *)
(* `net` or `dev` of each operation.                                       *)
(***************************************************************************)
Op(name, arg) == [op |-> name, arg |-> arg]

AciOutcomes == {"login_http_error", "login_exception", "http_error", "exception", "ok"}
IseOutcomes == {"http_error", "exception", "ok"}

\* aci_agent.get_aci_data_tool: ACIController() logs in, get_api() sends the
\* GET; requests.HTTPError and any other exception become error dicts.
get_aci_data_tool(api_url, net) ==
    IF net = "login_http_error"
    THEN [result |-> [error |-> <<"Failed to fetch data from ACI:", "HTTPError">>],
          io |-> <<Op("login", <<>>)>>]
    ELSE IF net = "login_exception"
    THEN [result |-> [error |-> <<"An unexpected error occurred:", "Exception">>],
          io |-> <<Op("login", <<>>)>>]
    ELSE IF net = "http_error"
    THEN [result |-> [error |-> <<"Failed to fetch data from ACI:", "HTTPError">>],
          io |-> <<Op("login", <<>>), Op("GET", api_url)>>]
    ELSE IF net = "exception"
    THEN [result |-> [error |-> <<"An unexpected error occurred:", "Exception">>],
          io |-> <<Op("login", <<>>), Op("GET", api_url)>>]
    ELSE [result |-> [imdata |-> "payload"],
          io |-> <<Op("login", <<>>), Op("GET", api_url)>>]

\* ise_agent.get_ise_data_tool: basic auth, no login request.
get_ise_data_tool(api_url, net) ==
    IF net = "http_error"
    THEN [result |-> [error |-> <<"Failed to fetch data from ISE:", "HTTPError">>],
          io |-> <<Op("GET", api_url)>>]
    ELSE IF net = "exception"
    THEN [result |-> [error |-> <<"An unexpected error occurred:", "Exception">>],
          io |-> <<Op("GET", api_url)>>]
    ELSE [result |-> [SearchResult |-> "payload"],
          io |-> <<Op("GET", api_url)>>]

\* Variant of Contains: str.startswith in place of `in`.
Contains_at_start(sub, s) ==
    Len(sub) <= Len(s) /\ SubSeq(s, 1, Len(sub)) = sub

(***************************************************************************)
(* create_aci_data_tool and delete_aci_data_tool.  A JSON value is a       *)
(* record named after its Python type: [null |-> TRUE], [bool |-> b],      *)
(* [num |-> n], [str |-> s], [list |-> items], [dict |-> keys] for a       *)
(* payload mapping, and [object |-> fields] for the top-level object, the  *)
(* fields being a record with exactly the keys present.                    *)
(***************************************************************************)
JsonNull == [null |-> TRUE]

\* Values of "payload" (and of the whole input when it is not an object).
PayloadValues ==
    {JsonNull, [bool |-> TRUE], [num |-> 0], [num |-> 5],
     [str |-> <<>>], [str |-> <<97>>], [list |-> <<>>], [list |-> <<1>>],
     [dict |-> <<>>], [dict |-> <<"fvTenant">>]}

\* Values of "api_url".
ApiUrlValues == {JsonNull, [str |-> <<>>], [str |-> <<97>>]}

\* The str given to create_aci_data_tool: not JSON, a JSON value that is
\* not an object, or an object with or without "api_url" and "payload".
CreateInputs ==
    {[kind |-> "not_json"]}
    \cup {[kind |-> "json", data |-> v] : v \in PayloadValues \ {[dict |-> <<>>], [dict |-> <<"fvTenant">>]}}
    \cup {[kind |-> "json", data |-> [object |-> [other |-> JsonNull]]]}
    \cup {[kind |-> "json", data |-> [object |-> [api_url |-> u]]] : u \in ApiUrlValues}
    \cup {[kind |-> "json", data |-> [object |-> [payload |-> v]]] : v \in PayloadValues}
    \cup {[kind |-> "json", data |-> [object |-> [api_url |-> u, payload |-> v]]] :
              u \in ApiUrlValues, v \in PayloadValues}

\* dict.get(key) on the parsed object.
JsonGet(fields, key) == IF key \in DOMAIN fields THEN fields[key] ELSE JsonNull

\* Python truth value of a parsed JSON value.
Truthy(v) ==
    IF "null" \in DOMAIN v THEN FALSE
    ELSE IF "bool" \in DOMAIN v THEN v.bool
    ELSE IF "num" \in DOMAIN v THEN v.num # 0
    ELSE IF "str" \in DOMAIN v THEN v.str # <<>>
    ELSE IF "list" \in DOMAIN v THEN v.list # <<>>
    ELSE v.dict # <<>>

\* Variant of IsDict: the isinstance test lets every value through.
IsDict_anything(v) == TRUE

\* isinstance(payload, dict)
IsDict(v) == "dict" \in DOMAIN v

\* aci_agent.create_aci_data_tool: everything is inside one try / except
\* Exception, which turns any failure into the same kind of error dict.
create_aci_data_tool(input, net) ==
    LET unexpected(what) == [error |-> <<"An unexpected error occurred:", what>>]
        login == <<Op("login", <<>>)>>
    IN  IF input.kind = "not_json"
        THEN [result |-> unexpected("JSONDecodeError"), io |-> <<>>]
        ELSE IF "object" \notin DOMAIN input.data
        THEN [result |-> unexpected("AttributeError"), io |-> <<>>]
        ELSE IF \/ ~Truthy(JsonGet(input.data.object, "api_url"))
                \/ ~Truthy(JsonGet(input.data.object, "payload"))
        THEN [result |-> unexpected("Both 'api_url' and 'payload' must be provided."),
              io |-> <<>>]
        ELSE IF ~IsDict(JsonGet(input.data.object, "payload"))
        THEN [result |-> unexpected("Payload must be a dictionary."), io |-> <<>>]
        ELSE IF net \in {"login_http_error", "login_exception"}
        THEN [result |-> unexpected("login failed"), io |-> login]
        ELSE IF net \in {"http_error", "exception"}
        THEN [result |-> unexpected("post failed"),
              io |-> login \o <<Op("POST", input.data.object.api_url.str)>>]
        ELSE [result |-> [imdata |-> "payload"],
              io |-> login \o <<Op("POST", input.data.object.api_url.str)>>]

\* aci_agent.delete_aci_data_tool.
delete_aci_data_tool(api_url, net) ==
    IF net = "login_http_error"
    THEN [result |-> [error |-> <<"Failed to delete data from ACI:", "HTTPError">>],
          io |-> <<Op("login", <<>>)>>]
    ELSE IF net = "login_exception"
    THEN [result |-> [error |-> <<"An unexpected error occurred:", "Exception">>],
          io |-> <<Op("login", <<>>)>>]
    ELSE IF net = "http_error"
    THEN [result |-> [error |-> <<"Failed to delete data from ACI:", "HTTPError">>],
          io |-> <<Op("login", <<>>), Op("DELETE", api_url)>>]
    ELSE IF net = "exception"
    THEN [result |-> [error |-> <<"An unexpected error occurred:", "Exception">>],
          io |-> <<Op("login", <<>>), Op("DELETE", api_url)>>]
    ELSE [result |-> [imdata |-> "payload"],
          io |-> <<Op("login", <<>>), Op("DELETE", api_url)>>]

\* `sub in s` on str.
Contains(sub, s) ==
    \E i \in 0..(Len(s) - Len(sub)) : SubSeq(s, i + 1, i + Len(sub)) = sub

\* ['|', 'include', 'exclude', 'begin', 'redirect', '>', '<']
disallowed_modifiers ==
    << <<124>>,
       <<105, 110, 99, 108, 117, 100, 101>>,
       <<101, 120, 99, 108, 117, 100, 101>>,
       <<98, 101, 103, 105, 110>>,
       <<114, 101, 100, 105, 114, 101, 99, 116>>,
       <<62>>,
       <<60>> >>

DeviceOutcomes ==
    {"load_fails", "no_device", "connect_fails", "parser_raises", "no_parser",
     "parse_raises", "disconnect_raises", "ok"}

\* ios_xe_agent.run_show_command.
run_show_command(command, dev) ==
    LET found == SelectSeq(disallowed_modifiers, LAMBDA m : Contains(m, command))
        load == <<Op("load_testbed", <<>>)>>
        connect == load \o <<Op("connect", <<>>)>>
        parser == connect \o <<Op("get_parser", command)>>
        parse == parser \o <<Op("parse", command)>>
        failed(what) == [error |-> <<what, command>>]
    IN  IF found # <<>>
        THEN [result |-> [error |-> <<"contains disallowed modifier", command, found[1]>>],
              io |-> <<>>, conn |-> "closed"]
        ELSE IF dev = "load_fails"
        THEN [result |-> failed("loader.load raised"), io |-> load, conn |-> "closed"]
        ELSE IF dev = "no_device"
        THEN [result |-> failed("KeyError 'Cat8000V'"), io |-> load, conn |-> "closed"]
        ELSE IF dev = "connect_fails"
        THEN [result |-> failed("connect raised"), io |-> connect, conn |-> "closed"]
        ELSE IF dev = "parser_raises"
        THEN [result |-> failed("get_parser raised"), io |-> parser, conn |-> "open"]
        ELSE IF dev = "no_parser"
        THEN [result |-> failed("No parser available for the command"),
              io |-> parser, conn |-> "open"]
        ELSE IF dev = "parse_raises"
        THEN [result |-> failed("parse raised"), io |-> parse, conn |-> "open"]
        ELSE IF dev = "disconnect_raises"
        THEN [result |-> failed("disconnect raised"),
              io |-> parse \o <<Op("disconnect", <<>>)>>, conn |-> "open"]
        ELSE [result |-> [parsed_output |-> "payload"],
              io |-> parse \o <<Op("disconnect", <<>>)>>, conn |-> "closed"]

\* Outcomes of the operations that run one fixed or given command.
CommandOutcomes ==
    {"load_fails", "no_device", "connect_fails", "command_raises",
     "disconnect_raises", "ok"}

\* The body shared by apply_device_configuration, execute_show_run and
\* execute_show_logging: load the testbed, take the device, connect, run the
\* one device call, disconnect, all inside try / except Exception.
device_session(op, arg, success, dev) ==
    LET load == <<Op("load_testbed", <<>>)>>
        connect == load \o <<Op("connect", <<>>)>>
        ran == connect \o <<Op(op, arg)>>
        failed(what) == [error |-> <<what>>]
    IN  IF dev = "load_fails"
        THEN [result |-> failed("loader.load raised"), io |-> load, conn |-> "closed"]
        ELSE IF dev = "no_device"
        THEN [result |-> failed("KeyError 'Cat8000V'"), io |-> load, conn |-> "closed"]
        ELSE IF dev = "connect_fails"
        THEN [result |-> failed("connect raised"), io |-> connect, conn |-> "closed"]
        ELSE IF dev = "command_raises"
        THEN [result |-> failed("the device call raised"), io |-> ran, conn |-> "open"]
        ELSE IF dev = "disconnect_raises"
        THEN [result |-> failed("disconnect raised"),
              io |-> ran \o <<Op("disconnect", <<>>)>>, conn |-> "open"]
        ELSE [result |-> success,
              io |-> ran \o <<Op("disconnect", <<>>)>>, conn |-> "closed"]

\* ios_xe_agent.apply_device_configuration: the input goes to
\* device.configure as it is.
apply_device_configuration(config_commands, dev) ==
    device_session("configure", config_commands,
                   [status |-> "success",
                    message |-> "Configuration applied successfully."], dev)

\* 'show run brief'
ShowRunBrief == <<115, 104, 111, 119, 32, 114, 117, 110, 32, 98, 114, 105, 101, 102>>

\* 'show logging last 250'
ShowLoggingLast ==
    <<115, 104, 111, 119, 32, 108, 111, 103, 103, 105, 110, 103, 32,
      108, 97, 115, 116, 32, 50, 53, 48>>

\* ios_xe_agent.execute_show_run; the str that device.execute returns is the
\* record [output |-> ...].
execute_show_run(dev) ==
    device_session("execute", ShowRunBrief, [output |-> "payload"], dev)

\* ios_xe_agent.execute_show_logging.
execute_show_logging(dev) ==
    device_session("execute", ShowLoggingLast, [output |-> "payload"], dev)

(***************************************************************************)
(* Tools.                                                                  *)
(***************************************************************************)
CompositeTools == {"check_supported_url_tool", "check_supported_command_tool"}

\* The tool that fetches for each agent.
ReadTool(ag) ==
    IF ag = "aci" THEN "get_aci_data_tool"
    ELSE IF ag = "ise" THEN "get_ise_data_tool"
    ELSE "run_show_command_tool"

\* Variant of hand_off: `if result.get('status'):` in place of the comparison
\* with 'supported'.
hand_off_any_status(next_tool, res) ==
    IF Get(res, "status") = "None" THEN res
    ELSE IF "closest_url" \notin DOMAIN res THEN [raise |-> "KeyError"]
    ELSE [status |-> "supported",
          message |-> <<"The closest supported API URL is",
                        res.closest_url, res.closest_name>>,
          action |-> [next_tool |-> next_tool, input |-> res.closest_url]]

\* Variant of hand_off: the hand-off names the delete tool.
hand_off_to_delete(next_tool, res) ==
    IF Get(res, "status") = "supported"
    THEN [status |-> "supported",
          message |-> <<"The closest supported API URL is",
                        res.closest_url, res.closest_name>>,
          action |-> [next_tool |-> "delete_aci_data_tool",
                      input |-> res.closest_url]]
    ELSE res

\* Variant of hand_off: the tool remembers the query it last rejected in
\* module state and answers a repetition differently.
hand_off_remembering(next_tool, res) ==
    IF Get(res, "status") = "supported"
    THEN [status |-> "supported",
          message |-> <<"The closest supported API URL is",
                        res.closest_url, res.closest_name>>,
          action |-> [next_tool |-> next_tool, input |-> res.closest_url]]
    ELSE IF /\ Get(res, "status") = "unsupported"
            /\ call.fn = "check_supported_url_tool"
            /\ call.arg = res.message[2]
    THEN [status |-> "unsupported",
          message |-> <<"The input was already rejected.", res.message[2]>>]
    ELSE res

\* check_supported_url_tool, after check_url_support(): a 'supported' result
\* becomes the message and the action naming the next tool, any other result
\* is returned as it is.
hand_off(next_tool, res) ==
    IF Get(res, "status") = "supported"
    THEN [status |-> "supported",
          message |-> <<"The closest supported API URL is",
                        res.closest_url, res.closest_name>>,
          action |-> [next_tool |-> next_tool, input |-> res.closest_url]]
    ELSE res

\* aci_agent.check_supported_url_tool / ise_agent.check_supported_url_tool.
check_supported_url_tool(ag, file, api_url) ==
    hand_off(IF ag = "aci" THEN "get_aci_data_tool" ELSE "get_ise_data_tool",
             check_url_support(ag, file, api_url))

\* check_supported_command_tool, after check_command_support(); result.get on
\* the list that check_command_support can return raises AttributeError.
hand_off_command(res) ==
    IF IsList(res) THEN [raise |-> "AttributeError"]
    ELSE IF Get(res, "status") = "supported"
    THEN [status |-> "supported",
          message |-> <<"The closest supported command is", res.closest_command>>,
          action |-> [next_tool |-> "run_show_command_tool",
                      input |-> res.closest_command]]
    ELSE res

\* ios_xe_agent.check_supported_command_tool.
check_supported_command_tool(file, command) ==
    hand_off_command(check_command_support(file, command))

\* aci_agent.process_agent_response: the module defines neither
\* agent_executor nor st, so the hand-off branch raises NameError.
process_agent_response(response) ==
    IF /\ response # NoResult
       /\ Get(response, "status") = "supported"
       /\ "action" \in DOMAIN response
       /\ "next_tool" \in DOMAIN response.action
    THEN [raise |-> "NameError"]
    ELSE response

(***************************************************************************)
(* Tool specification: any sequence of tool calls of one agent, chosen by  *)
(* the language model, with the catalog file rewritten at any time between *)
(* two calls.                                                              *)
(***************************************************************************)
\* Arguments the language model gives the tools, and the identifiers of the
\* catalogs they are run against.
ToolInputs == SeqsUpTo(Chars, ToolMaxInputLen) \cup {ErrorKey}

\* 'show ip int brief | include up'
ShowWithPipe ==
    <<115, 104, 111, 119, 32, 105, 112, 32, 105, 110, 116, 32, 98, 114, 105,
      101, 102, 32, 124, 32, 105, 110, 99, 108, 117, 100, 101, 32, 117, 112>>

\* Commands and configurations given to the device tools: the same, "a|b",
\* "<" and a show command with a pipe.
ShowCommands == ToolInputs \cup {<<97, 124, 98>>, <<60>>, ShowWithPipe}

InitTools ==
    /\ agent \in Agents
    /\ source \in Files(agent, ToolInputs, Names, ToolMaxEntries)
    /\ call = NoCall
    /\ result = NoResult
    /\ io = <<>>
    /\ conn = "closed"
    /\ edited = FALSE
    /\ repeat = FALSE
    /\ conversation = <<>>
    /\ chat_history = <<>>

\* A tool returns: the call is recorded with what it returned and did.
Returns(fn, arg, res, ops, c) ==
    /\ call' = [fn |-> fn, arg |-> arg]
    /\ result' = res
    /\ io' = ops
    /\ conn' = c
    /\ repeat' = (~edited /\ call.fn = fn /\ call.arg = arg)
    /\ edited' = FALSE
    /\ UNCHANGED <<agent, source, conversation, chat_history>>

CheckSupportedUrlTool(api_url) ==
    /\ agent \in UrlAgents
    /\ Returns("check_supported_url_tool", api_url,
               check_supported_url_tool(agent, source, api_url), <<>>, "closed")

GetAciDataTool(api_url, net) ==
    /\ agent = "aci"
    /\ LET out == get_aci_data_tool(api_url, net)
       IN  Returns("get_aci_data_tool", api_url, out.result, out.io, "closed")

CreateAciDataTool(input, net) ==
    /\ agent = "aci"
    /\ LET out == create_aci_data_tool(input, net)
       IN  Returns("create_aci_data_tool", input, out.result, out.io, "closed")

DeleteAciDataTool(api_url, net) ==
    /\ agent = "aci"
    /\ LET out == delete_aci_data_tool(api_url, net)
       IN  Returns("delete_aci_data_tool", api_url, out.result, out.io, "closed")

GetIseDataTool(api_url, net) ==
    /\ agent = "ise"
    /\ LET out == get_ise_data_tool(api_url, net)
       IN  Returns("get_ise_data_tool", api_url, out.result, out.io, "closed")

CheckSupportedCommandTool(command) ==
    /\ agent = "ios_xe"
    /\ Returns("check_supported_command_tool", command,
               check_supported_command_tool(source, command), <<>>, "closed")

RunShowCommandTool(command, dev) ==
    /\ agent = "ios_xe"
    /\ LET out == run_show_command(command, dev)
       IN  Returns("run_show_command_tool", command, out.result, out.io, out.conn)

ApplyConfigurationTool(config_commands, dev) ==
    /\ agent = "ios_xe"
    /\ LET out == apply_device_configuration(config_commands, dev)
       IN  Returns("apply_configuration_tool", config_commands,
                   out.result, out.io, out.conn)

LearnConfigTool(dev) ==
    /\ agent = "ios_xe"
    /\ LET out == execute_show_run(dev)
       IN  Returns("learn_config_tool", <<>>, out.result, out.io, out.conn)

LearnLoggingTool(dev) ==
    /\ agent = "ios_xe"
    /\ LET out == execute_show_logging(dev)
       IN  Returns("learn_logging_tool", <<>>, out.result, out.io, out.conn)

ProcessAgentResponse ==
    /\ agent = "aci"
    /\ ~IsRaise(result)
    /\ Returns("process_agent_response", <<>>, process_agent_response(result),
               <<>>, "closed")

\* The catalog file is rewritten from outside.
EditCatalog(file) ==
    /\ file # source
    /\ source' = file
    /\ edited' = TRUE
    /\ UNCHANGED <<agent, call, result, io, conn, repeat, conversation, chat_history>>

NextTools ==
    \/ \E api_url \in ToolInputs : CheckSupportedUrlTool(api_url)
    \/ \E api_url \in ToolInputs, net \in AciOutcomes : GetAciDataTool(api_url, net)
    \/ \E input \in CreateInputs, net \in AciOutcomes : CreateAciDataTool(input, net)
    \/ \E api_url \in ToolInputs, net \in AciOutcomes : DeleteAciDataTool(api_url, net)
    \/ \E api_url \in ToolInputs, net \in IseOutcomes : GetIseDataTool(api_url, net)
    \/ \E command \in ToolInputs : CheckSupportedCommandTool(command)
    \/ \E command \in ShowCommands, dev \in DeviceOutcomes :
          RunShowCommandTool(command, dev)
    \/ \E config_commands \in ShowCommands, dev \in CommandOutcomes :
          ApplyConfigurationTool(config_commands, dev)
    \/ \E dev \in CommandOutcomes : LearnConfigTool(dev)
    \/ \E dev \in CommandOutcomes : LearnLoggingTool(dev)
    \/ ProcessAgentResponse
    \/ \E file \in Files(agent, ToolInputs, Names, ToolMaxEntries) : EditCatalog(file)

SpecTools == InitTools /\ [][NextTools]_vars

(***************************************************************************)
(* The Streamlit session of cisco_agent.py.                                *)
(***************************************************************************)
\* 'user' and 'assistant'
UserRole == <<117, 115, 101, 114>>
AssistantRole == <<97, 115, 115, 105, 115, 116, 97, 110, 116>>

\* str.capitalize(): the first character in upper case, the rest in lower.
capitalize(s) ==
    [i \in DOMAIN s |->
        IF i = 1
        THEN (IF s[i] \in 97..122 THEN s[i] - 32 ELSE s[i])
        ELSE (IF s[i] \in 65..90 THEN s[i] + 32 ELSE s[i])]

\* "\n".join(parts)
RECURSIVE join(_)
join(parts) ==
    IF parts = <<>> THEN <<>>
    ELSE IF Len(parts) = 1 THEN parts[1]
    ELSE parts[1] \o <<10>> \o join(Tail(parts))

\* "\n".join([f"{entry['role'].capitalize()}: {entry['content']}" ...])
render(entries) ==
    join([i \in DOMAIN entries |->
            capitalize(entries[i].role) \o <<58, 32>> \o entries[i].content])

\* What master_agent.run does: it returns a str or raises.
AgentRuns ==
    {[raise |-> "Exception"]}
        \cup {[response |-> text] : text \in SeqsUpTo(Chars, MaxTextLen)}

\* Variant of send_handler: the conversation is replaced by the current
\* exchange instead of being appended to.
send_handler_restarting(session, user_input, run) ==
    IF user_input = <<>> THEN session
    ELSE IF IsRaise(run)
    THEN [conversation |-> <<[role |-> UserRole, content |-> user_input]>>,
          chat_history |-> session.chat_history]
    ELSE LET full == <<[role |-> UserRole, content |-> user_input],
                       [role |-> AssistantRole, content |-> run.response]>>
         IN  [conversation |-> full, chat_history |-> render(full)]

\* The body of `if st.button("Send"):` on the session state.
send_handler(session, user_input, run) ==
    IF user_input = <<>> THEN session
    ELSE IF IsRaise(run)
    THEN [conversation |->
              Append(session.conversation,
                     [role |-> UserRole, content |-> user_input]),
          chat_history |-> session.chat_history]
    ELSE LET full == session.conversation
                       \o <<[role |-> UserRole, content |-> user_input],
                            [role |-> AssistantRole, content |-> run.response]>>
         IN  [conversation |-> full, chat_history |-> render(full)]

\* Questions typed in the text input; the empty one is the empty box.
ChatInputs == SeqsUpTo(Chars, MaxTextLen)

\* A new session: both keys are initialised on the first script run.
InitChat ==
    /\ agent = "master"
    /\ source = [kind |-> "missing", data |-> <<>>]
    /\ call = NoCall
    /\ result = NoResult
    /\ io = <<>>
    /\ conn = "closed"
    /\ edited = FALSE
    /\ repeat = FALSE
    /\ conversation = <<>>
    /\ chat_history = <<>>

\* The Send button is pressed; result records what the agent run did.
Send(user_input, run) ==
    /\ Len(conversation) + 2 <= MaxTurns
    /\ LET session == send_handler([conversation |-> conversation,
                                    chat_history |-> chat_history],
                                   user_input, run)
       IN  /\ conversation' = session.conversation
           /\ chat_history' = session.chat_history
    /\ call' = [fn |-> "send", arg |-> user_input]
    /\ result' = (IF user_input = <<>> THEN NoResult ELSE run)
    /\ UNCHANGED <<agent, source, io, conn, edited, repeat>>

NextChat == \E user_input \in ChatInputs, run \in AgentRuns : Send(user_input, run)

SpecChat == InitChat /\ [][NextChat]_vars

(***************************************************************************)
(* Vocabulary of the resolver claims.                                      *)
(***************************************************************************)
IdKey(ag) == IF ag \in UrlAgents THEN "URL" ELSE "command"

\* The file holds a catalog: it is a JSON list whose entries all carry the
\* identifier field.
Loaded(ag, file) ==
    /\ file.kind = "json"
    /\ \A i \in DOMAIN file.data : IdKey(ag) \in DOMAIN file.data[i]

CatIds(ag, file) == [i \in DOMAIN file.data |-> file.data[i][IdKey(ag)]]

CatNames(file) ==
    [i \in DOMAIN file.data |->
        IF "Name" \in DOMAIN file.data[i] THEN file.data[i].Name ELSE <<>>]

Reaches(x, query) == RatioGeq(ratio(x, query), Cutoff)

Resolved == call.fn \in {"check_url_support", "check_command_support"}
LoaderCalled == call.fn \in {"load_urls", "load_supported_commands"}

\* The candidates among which the returned match was chosen, and the match.
Candidates ==
    IF agent \in UrlAgents
    THEN IF \E i \in DOMAIN source.data : Reaches(CatIds(agent, source)[i], call.arg)
         THEN CatIds(agent, source) ELSE CatNames(source)
    ELSE CatIds(agent, source)

Chosen ==
    IF agent \in UrlAgents
    THEN IF \E i \in DOMAIN source.data : Reaches(CatIds(agent, source)[i], call.arg)
         THEN result.closest_url ELSE result.closest_name
    ELSE result.closest_command

\* Indices of the candidates with the highest score, at or above the cutoff.
BestIdx(cands, query) ==
    {i \in DOMAIN cands :
        /\ Reaches(cands[i], query)
        /\ \A j \in DOMAIN cands :
              RatioGeq(ratio(cands[i], query), ratio(cands[j], query))}

Tied(cands, query) ==
    \E i, j \in BestIdx(cands, query) : cands[i] # cands[j]

\* C1: a catalog file that fails to load (missing, unreadable, not JSON, or
\* with an entry without the identifier field) makes the loader return an
\* error dict, and the resolver return that same error dict for any query,
\* never a status.
C1_LoadErrorPropagates ==
    ~Loaded(agent, source) =>
        /\ LoaderCalled => DOMAIN result = {"error"}
        /\ Resolved =>
              /\ DOMAIN result = {"error"}
              /\ result = (IF agent \in UrlAgents
                           THEN load_urls(agent, source)
                           ELSE load_supported_commands(source))

C1_Witness ==
    /\ Resolved
    /\ source.kind = "json"
    /\ ~Loaded(agent, source)
    /\ "error" \in DOMAIN result

\* C2: a 'supported' result carries an identifier of the catalog, and for the
\* URL resolvers the (identifier, display name) pair of one catalog entry.
C2_SupportedIsCatalogEntry ==
    (Resolved /\ Get(result, "status") = "supported") =>
        /\ Loaded(agent, source)
        /\ \E i \in DOMAIN source.data :
              IF agent \in UrlAgents
              THEN /\ CatIds(agent, source)[i] = result.closest_url
                   /\ CatNames(source)[i] = result.closest_name
              ELSE CatIds(agent, source)[i] = result.closest_command

\* A match made on a display name that two entries with different URLs share.
C2_Witness ==
    /\ call.fn = "check_url_support"
    /\ Get(result, "status") = "supported"
    /\ Len(source.data) = 2
    /\ CatNames(source)[1] = CatNames(source)[2]
    /\ CatNames(source)[1] # <<>>
    /\ CatIds(agent, source)[1] # CatIds(agent, source)[2]
    /\ \A i \in DOMAIN source.data : ~Reaches(CatIds(agent, source)[i], call.arg)
    /\ result.closest_name = CatNames(source)[1]

\* C3 (as claimed): a query equal to an identifier of the loaded catalog
\* resolves to 'supported' with exactly that identifier, for all three
\* resolvers.
C3_ExactMatchSupported ==
    (/\ Resolved
     /\ Loaded(agent, source)
     /\ \E i \in DOMAIN source.data : CatIds(agent, source)[i] = call.arg)
        => /\ Get(result, "status") = "supported"
           /\ (IF agent \in UrlAgents THEN result.closest_url
               ELSE result.closest_command) = call.arg

\* C4 (as claimed): on a loaded catalog the result is 'supported' exactly when
\* some identifier or display name reaches the cutoff, and 'unsupported'
\* otherwise.
C4_SupportedIffCandidate ==
    (Resolved /\ Loaded(agent, source)) =>
        LET cand == \E i \in DOMAIN source.data :
                       \/ Reaches(CatIds(agent, source)[i], call.arg)
                       \/ /\ agent \in UrlAgents
                          /\ Reaches(CatNames(source)[i], call.arg)
        IN  /\ cand => Get(result, "status") = "supported"
            /\ ~cand => Get(result, "status") = "unsupported"

\* C5: when an identifier and a display name both reach the cutoff, the URL
\* resolver returns a best-scoring identifier with the display name paired
\* with it (the name of the first entry with that identifier).
C5_IdentifierPreferred ==
    (/\ call.fn = "check_url_support"
     /\ Loaded(agent, source)
     /\ \E i \in DOMAIN source.data : Reaches(CatIds(agent, source)[i], call.arg)
     /\ \E j \in DOMAIN source.data : Reaches(CatNames(source)[j], call.arg))
        => /\ Get(result, "status") = "supported"
           /\ \E i \in BestIdx(CatIds(agent, source), call.arg) :
                 result.closest_url = CatIds(agent, source)[i]
           /\ \E i \in DOMAIN source.data :
                 /\ CatIds(agent, source)[i] = result.closest_url
                 /\ \A j \in 1..(i - 1) : CatIds(agent, source)[j] # result.closest_url
                 /\ CatNames(source)[i] = result.closest_name

\* The display name of another entry scores higher than every identifier,
\* and the identifier's entry is returned all the same.
C5_Witness ==
    /\ call.fn = "check_url_support"
    /\ Loaded(agent, source)
    /\ Get(result, "status") = "supported"
    /\ \E i \in DOMAIN source.data : Reaches(CatIds(agent, source)[i], call.arg)
    /\ \E j \in DOMAIN source.data :
          /\ ~RatioGeq(ratio(result.closest_url, call.arg),
                       ratio(CatNames(source)[j], call.arg))
          /\ CatIds(agent, source)[j] # result.closest_url
          /\ CatNames(source)[j] # result.closest_name

\* C6 (as claimed): when distinct candidates share the highest score, the one
\* that comes first in the catalog is returned.
C6_FirstInCatalogOrder ==
    (/\ Resolved
     /\ Get(result, "status") = "supported"
     /\ Tied(Candidates, call.arg))
        => LET B == BestIdx(Candidates, call.arg)
           IN  Chosen = Candidates[CHOOSE i \in B : \A j \in B : i <= j]

\* C6 (amended): when distinct candidates share the highest score, the
\* greatest of them in str order is returned, wherever it is in the catalog.
C6_GreatestStringWins ==
    (/\ Resolved
     /\ Get(result, "status") = "supported"
     /\ Tied(Candidates, call.arg))
        => LET B == BestIdx(Candidates, call.arg)
           IN  /\ \E i \in B : Chosen = Candidates[i]
               /\ \A j \in B : ~StrLess(Chosen, Candidates[j])

\* A tie that the candidate later in the catalog wins.
C6_Witness ==
    /\ Resolved
    /\ Get(result, "status") = "supported"
    /\ Tied(Candidates, call.arg)
    /\ LET B == BestIdx(Candidates, call.arg)
       IN  Chosen # Candidates[CHOOSE i \in B : \A j \in B : i <= j]

(***************************************************************************)
(* Vocabulary of the tool claims.                                          *)
(***************************************************************************)
\* What the agent's resolver returns for a query on a catalog file.
Resolve(ag, file, query) ==
    IF ag \in UrlAgents THEN check_url_support(ag, file, query)
    ELSE check_command_support(file, query)

\* The identifier carried by a 'supported' resolution.
ResolvedId(res) ==
    IF "closest_url" \in DOMAIN res THEN res.closest_url ELSE res.closest_command

\* The backend request that the agent's read operation sends for an identifier.
ReadOp(ag, id) == IF ag \in UrlAgents THEN Op("GET", id) ELSE Op("parse", id)

\* The last call was a composite tool, run on the catalog file as it is now.
CompositeCalled == call.fn \in CompositeTools /\ ~edited

\* C7 (as claimed): when the query resolves to 'supported', the composite
\* tool sends the read request for the resolved identifier within the same
\* invocation and returns what the read returns, not the resolution with a
\* next-tool hint.
C7_ChainsRead ==
    (CompositeCalled
     /\ Get(Resolve(agent, source, call.arg), "status") = "supported")
        => /\ \E i \in DOMAIN io :
                 io[i] = ReadOp(agent, ResolvedId(Resolve(agent, source, call.arg)))
           /\ "action" \notin DOMAIN result

\* C8: when the resolver returns 'unsupported' or a load error for the query,
\* the composite tool returns exactly that value, names no next tool and
\* sends no backend request.
C8_UnresolvedReturnedUntouched ==
    (CompositeCalled
     /\ \/ Get(Resolve(agent, source, call.arg), "status") = "unsupported"
        \/ "error" \in DOMAIN Resolve(agent, source, call.arg))
        => /\ result = Resolve(agent, source, call.arg)
           /\ "action" \notin DOMAIN result
           /\ io = <<>>

\* A query the catalog does not support, given to a composite tool.
C8_Witness ==
    /\ CompositeCalled
    /\ Loaded(agent, source)
    /\ source.data # <<>>
    /\ Get(result, "status") = "unsupported"
    /\ result = Resolve(agent, source, call.arg)

\* C9: a composite tool's invocation sends at most one read request and no
\* other kind of backend request; a returned next-tool hint comes only from a
\* composite tool and always names the agent's read tool; what the read tools
\* and process_agent_response return never names a next tool.
C9_AtMostOneHopToRead ==
    /\ call.fn \in CompositeTools =>
          /\ Cardinality({i \in DOMAIN io : io[i].op \in {"GET", "parse"}}) <= 1
          /\ \A i \in DOMAIN io :
                io[i].op \notin {"POST", "DELETE", "configure"}
    /\ "action" \in DOMAIN result =>
          /\ call.fn \in CompositeTools
          /\ DOMAIN result.action = {"next_tool", "input"}
          /\ result.action.next_tool = ReadTool(agent)
    /\ call.fn \in {ReadTool(agent), "process_agent_response"} =>
          "action" \notin DOMAIN result

\* A composite tool has handed off to the read tool with a catalog identifier.
C9_Witness ==
    /\ CompositeCalled
    /\ "action" \in DOMAIN result
    /\ result.action.next_tool = ReadTool(agent)
    /\ \E i \in DOMAIN source.data :
          CatIds(agent, source)[i] = result.action.input

Denylist ==
    {<<124>>, <<105, 110, 99, 108, 117, 100, 101>>,
     <<101, 120, 99, 108, 117, 100, 101>>, <<98, 101, 103, 105, 110>>,
     <<114, 101, 100, 105, 114, 101, 99, 116>>, <<62>>, <<60>>}

\* The text holds a denylisted substring.
Denied(text) ==
    \E i \in 1..Len(text), j \in 1..Len(text) : SubSeq(text, i, j) \in Denylist

DeviceTools ==
    {"run_show_command_tool", "apply_configuration_tool", "learn_config_tool",
     "learn_logging_tool"}

\* C11 (as claimed): a configuration that holds a denylisted substring is
\* rejected with an error result before the testbed is loaded or a
\* connection is attempted.
C11_ConfigureRejectsDenylisted ==
    (call.fn = "apply_configuration_tool" /\ Denied(call.arg))
        => /\ "error" \in DOMAIN result
           /\ io = <<>>

\* C12 (as claimed): a device operation that connected has disconnected when
\* it returns, whatever its outcome; the connection is never left open.
C12_ConnectionReleased ==
    call.fn \in DeviceTools => conn = "closed"

\* C15: run_show_command answers a command that holds a denylisted substring
\* with the disallowed-modifier error, naming a modifier the command holds,
\* before the testbed is loaded; a command that holds none gets past the
\* check: the testbed load is attempted and no disallowed-modifier error is
\* returned.
C15_ReadPathDenylist ==
    call.fn = "run_show_command_tool" =>
        IF Denied(call.arg)
        THEN /\ "error" \in DOMAIN result
             /\ result.error[1] = "contains disallowed modifier"
             /\ result.error[3] \in Denylist
             /\ \E i \in 1..Len(call.arg), j \in 1..Len(call.arg) :
                   SubSeq(call.arg, i, j) = result.error[3]
             /\ io = <<>>
        ELSE /\ io # <<>>
             /\ io[1] = Op("load_testbed", <<>>)
             /\ "error" \in DOMAIN result =>
                   result.error[1] # "contains disallowed modifier"

\* 'show ip int brief | include up' is rejected without touching the device.
C15_Witness ==
    /\ call.fn = "run_show_command_tool"
    /\ call.arg = ShowWithPipe
    /\ "error" \in DOMAIN result
    /\ result.error[3] = <<124>>
    /\ io = <<>>

(***************************************************************************)
(* Vocabulary of the create and dispatcher claims.                         *)
(***************************************************************************)
\* The input is a JSON object.
IsObject(input) == input.kind = "json" /\ "object" \in DOMAIN input.data

\* The input is a JSON object whose "payload" is a mapping.
HasMappingPayload(input) ==
    /\ IsObject(input)
    /\ "payload" \in DOMAIN input.data.object
    /\ "dict" \in DOMAIN input.data.object.payload

\* The input is a JSON object whose "api_url" is a non-empty str.
HasIdentifier(input) ==
    /\ IsObject(input)
    /\ "api_url" \in DOMAIN input.data.object
    /\ "str" \in DOMAIN input.data.object.api_url
    /\ input.data.object.api_url.str # <<>>

ToolNames ==
    {"check_supported_url_tool", "get_aci_data_tool", "create_aci_data_tool",
     "delete_aci_data_tool", "get_ise_data_tool", "check_supported_command_tool",
     "run_show_command_tool", "apply_configuration_tool", "learn_config_tool",
     "learn_logging_tool"}

\* C13: create_aci_data_tool, given an input whose payload is not a mapping
\* (a str, a number, a list, null, no payload, or an input that is not a
\* JSON object), returns an error dict and sends neither the login request
\* nor a POST.
C13_NonMappingPayloadRejected ==
    (call.fn = "create_aci_data_tool" /\ ~HasMappingPayload(call.arg))
        => /\ DOMAIN result = {"error"}
           /\ io = <<>>

\* An identifier with a bare, non-empty str as payload.
C13_Witness ==
    /\ call.fn = "create_aci_data_tool"
    /\ HasIdentifier(call.arg)
    /\ "payload" \in DOMAIN call.arg.data.object
    /\ call.arg.data.object.payload = [str |-> <<97>>]
    /\ DOMAIN result = {"error"}
    /\ io = <<>>

\* C14 (as claimed): no tool call ends with an exception; every tool returns
\* a result to the agent executor, whatever the catalog holds.
C14_NoToolRaises ==
    call.fn \in ToolNames => ~IsRaise(result)

\* C17 (as claimed): given an identifier and a payload that is a mapping, the
\* empty mapping included, create_aci_data_tool authenticates and, once
\* logged in, sends exactly one POST to the identifier, and returns the
\* backend's response or an error dict.
C17_MappingPayloadPosted ==
    (/\ call.fn = "create_aci_data_tool"
     /\ HasIdentifier(call.arg)
     /\ HasMappingPayload(call.arg))
        => \/ io = <<Op("login", <<>>)>> /\ DOMAIN result = {"error"}
           \/ /\ io = <<Op("login", <<>>),
                        Op("POST", call.arg.data.object.api_url.str)>>
              /\ DOMAIN result \in {{"error"}, {"imdata"}}

\* C16 (as claimed): every catalog a loader returns holds only non-empty
\* identifiers, and a file with an entry whose identifier is missing or
\* empty gives a load error instead of a catalog.
C16_LoadedIdentifiersNonEmpty ==
    LoaderCalled =>
        /\ IsList(result) =>
              \A i \in DOMAIN result.list :
                 (IF agent \in UrlAgents THEN result.list[i][1]
                  ELSE result.list[i]) # <<>>
        /\ (/\ source.kind = "json"
            /\ \E i \in DOMAIN source.data :
                  \/ IdKey(agent) \notin DOMAIN source.data[i]
                  \/ source.data[i][IdKey(agent)] = <<>>)
              => "error" \in DOMAIN result

(***************************************************************************)
(* Vocabulary of the session claims.                                       *)
(***************************************************************************)
\* The turns a step added at the end of the conversation.
Added == SubSeq(conversation', Len(conversation) + 1, Len(conversation'))

\* C18: every step of a session keeps the conversation it found as a prefix
\* of the new one; an empty input adds nothing, a non-empty input whose agent
\* run raises adds the user turn alone, and a non-empty input whose agent run
\* succeeds adds the user turn followed by the assistant turn.
C18_ConversationAppendOnly ==
    [][/\ Len(conversation') >= Len(conversation)
       /\ SubSeq(conversation', 1, Len(conversation)) = conversation
       /\ call'.fn = "send"
       /\ Added = (IF call'.arg = <<>> THEN <<>>
                   ELSE IF IsRaise(result')
                   THEN <<[role |-> UserRole, content |-> call'.arg]>>
                   ELSE <<[role |-> UserRole, content |-> call'.arg],
                          [role |-> AssistantRole, content |-> result'.response]>>)]_vars

\* A turn whose agent run raised, then a turn whose run succeeded: the
\* unanswered question is still there, ahead of the new exchange.
C18_Witness ==
    /\ Len(conversation) = 3
    /\ conversation[1].role = UserRole
    /\ conversation[2].role = UserRole
    /\ conversation[3].role = AssistantRole
    /\ conversation[1].content # conversation[2].content
    /\ call.fn = "send"
    /\ ~IsRaise(result)

\* C19 (as claimed): after a turn with a non-empty input, whether the agent
\* run succeeded or raised, chat_history is the rendering of the whole
\* conversation, and every user turn is directly followed by an assistant
\* turn.
C19_HistoryRendersConversation ==
    (call.fn = "send" /\ call.arg # <<>>)
        => /\ chat_history = render(conversation)
           /\ \A i \in DOMAIN conversation :
                 conversation[i].role = UserRole =>
                    /\ i < Len(conversation)
                    /\ conversation[i + 1].role = AssistantRole

====
